---- MODULE Spec2Model ----
(***************************************************************************)
(* Model of src/gistapi/gistapi.py: the /api/v1/search handler `search`    *)
(* and its helper `gists_for_user`, run against a GitHub-like upstream.    *)
(*                                                                         *)
(* Strings are sequences of one-character strings so that formatting and   *)
(* regular-expression search are computed rather than assumed.  A Python   *)
(* value that may be None is wrapped: Str(s) or None.                      *)
(***************************************************************************)
EXTENDS Integers, Sequences, FiniteSets, TLC

VARIABLES post_data, upstream, pc, username, pattern, gists, gi, fi,
          matches, response, exc, calls, run, prev

vars == <<post_data, upstream, pc, username, pattern, gists, gi, fi,
          matches, response, exc, calls, run, prev>>

(***************************************************************************)
(* Bounds of the model.                                                    *)
(***************************************************************************)
\* files in the user's gists altogether (so at most that many gists)
MaxFiles == 3
\* times the same request is posted
MaxRuns == 2

(***************************************************************************)
(* Python values.                                                          *)
(***************************************************************************)
None == [kind |-> "none"]
Str(s) == [kind |-> "str", val |-> s]
JsonList(items) == [kind |-> "list", items |-> items]
JsonDict(msg) == [kind |-> "dict", message |-> msg]

\* dict.get(key): the value, or None when the key is missing
DictGet(d, key) == IF key \in DOMAIN d THEN d[key] ELSE None

\* str.format of a value: str(None) is the text "None"
Format(v) == IF v = None THEN <<"N", "o", "n", "e">> ELSE v.val

\* bool(value) for the values gists_for_user can return
Truthy(v) == IF v.kind = "list" THEN Len(v.items) > 0 ELSE v.kind = "dict"

(***************************************************************************)
(* The regular expressions of the model: literal characters, "." for any   *)
(* character, and "(" which opens a group that is never closed.            *)
(***************************************************************************)
\* re.compile succeeds: every group that is opened is closed
ReValid(p) == \A i \in 1..Len(p) : p[i] # "("

\* re.search(p, text) for a valid p: unanchored, case-sensitive
ReSearch(p, text) ==
    \E i \in 0..(Len(text) - Len(p)) :
        \A j \in 1..Len(p) : p[j] = "." \/ p[j] = text[i + j]

\* re.search(pattern, text) as search calls it: a match flag or the exception raised
ReSearchCall(pat, text) ==
    IF pat = None THEN [raises |-> "TypeError"]
    ELSE IF ~ReValid(pat.val) THEN [raises |-> "re.error"]
    ELSE [raises |-> "", found |-> ReSearch(pat.val, text)]

(***************************************************************************)
(* The upstream: what api.github.com and the raw-content host serve.       *)
(***************************************************************************)
KnownUser == <<"a", "l">>
Bodies == {<<"b", "a">>, <<"b", "b">>}
ErrorBody == <<"n", "f">>
ListingKinds == {"ok", "notfound", "ratelimit", "badgateway", "transport", "never"}
FailKinds == {"http_error", "transport", "never"}

\* the files of one gist (a gist has at least one file), as their bodies
FileSeqs(budget) == UNION {[1..n -> Bodies] : n \in 1..budget}

\* the user's gists in listing order, holding at most `budget` files altogether
RECURSIVE StoresWith(_)
StoresWith(budget) ==
    {<<>>} \cup
    UNION {{<<f>> \o rest : rest \in StoresWith(budget - Len(f))} : f \in FileSeqs(budget)}

Stores == StoresWith(MaxFiles)

UsernameInputs == {Str(<<>>), Str(KnownUser)}
PatternInputs == {Str(<<>>), Str(<<"a">>), Str(<<".", "f">>), Str(<<"(">>)}
PostDatas ==
    {[username |-> u, pattern |-> p] : u \in UsernameInputs, p \in PatternInputs}
    \cup {[username |-> u] : u \in UsernameInputs}
    \cup {[pattern |-> p] : p \in PatternInputs}

\* the files of the first page, in gist-then-file order
PageUrls(s, n) == UNION {{<<i, j>> : j \in 1..Len(s[i])} : i \in 1..n}

\* the sizes page one of the listing of s can have: it holds a gist when there is one
FirstPages(s) == IF Len(s) = 0 THEN {0} ELSE 1..Len(s)

\* an upstream: how the listing is answered, the gists it stores, how many of
\* them page one of the listing holds, and the one file of page one, if any,
\* whose raw-content GET fails, with the way it fails
UpstreamsOf(s) ==
    UNION {
        {[listing |-> "ok", store |-> s, firstPage |-> n,
          failAt |-> <<0, 0>>, failKind |-> "none"]}
        \cup
        {[listing |-> "ok", store |-> s, firstPage |-> n, failAt |-> u, failKind |-> k] :
            u \in PageUrls(s, n), k \in FailKinds}
        : n \in FirstPages(s)}

Upstreams ==
    UNION {UpstreamsOf(s) : s \in Stores}
    \cup
    {[listing |-> l, store |-> <<>>, firstPage |-> 0, failAt |-> <<0, 0>>, failKind |-> "none"] :
        l \in ListingKinds \ {"ok"}}


\* what the listing endpoint answers to GET /users/{username}/gists; the
\* answer to a listing that is never answered is not defined
ListingAnswer(up) ==
    CASE up.listing = "ok" ->
           [kind |-> "response", status |-> 200,
            json |-> JsonList([i \in 1..up.firstPage |->
                        [id |-> i,
                         files |-> [j \in 1..Len(up.store[i]) |-> [raw_url |-> <<i, j>>]]]])]
      [] up.listing = "notfound" ->
           [kind |-> "response", status |-> 404, json |-> JsonDict("Not Found")]
      [] up.listing = "ratelimit" ->
           [kind |-> "response", status |-> 403, json |-> JsonDict("API rate limit exceeded")]
      [] up.listing = "badgateway" ->
           [kind |-> "response", status |-> 502, json |-> [kind |-> "notjson"]]
      [] up.listing = "transport" ->
           [kind |-> "transport"]

\* how the raw-content host answers GET raw_url
FetchKind(up, url) == IF up.failAt = url THEN up.failKind ELSE "ok"

\* response.text of an answered raw-content GET: the body is used whatever the status
ResponseText(up, url) ==
    IF FetchKind(up, url) = "http_error" THEN ErrorBody ELSE up.store[url[1]][url[2]]

(***************************************************************************)
(* gists_for_user                                                          *)
(***************************************************************************)
ListRequest(user) == <<"GET", "https://api.github.com/users", Format(user), "gists">>
RawRequest(url) == <<"GET", "raw", url>>

\* response.json(): the parsed body, or JSONDecodeError
JsonOf(ans) ==
    IF ans.json.kind = "notjson" THEN [raises |-> "JSONDecodeError"]
    ELSE [raises |-> "", value |-> ans.json]

\* variant without the except clause: an HTTPError escapes gists_for_user
GistsForUserNoExcept(ans) ==
    IF ans.kind = "transport" THEN [raises |-> "ConnectionError"]
    ELSE IF ans.status >= 400 THEN [raises |-> "HTTPError"]
    ELSE JsonOf(ans)

\* try: get, raise_for_status, return response.json()
\* except HTTPError: return e.response.json()
GistsForUser(ans) ==
    IF ans.kind = "transport" THEN [raises |-> "ConnectionError"]
    ELSE IF ans.status >= 400 THEN JsonOf(ans)
    ELSE JsonOf(ans)

(***************************************************************************)
(* search                                                                  *)
(***************************************************************************)
NoResponse == [status |-> "none"]
FailObject == [error |-> "not found", message |-> "invalid user", status |-> "fail"]
SuccessObject(u, p, m) ==
    [username |-> u, pattern |-> p, matches |-> m, status |-> "success"]

GistUrl(user, id) == <<"https://gist.github.com", Format(user), id>>

\* variant without the truthiness test: `if type(gists) is list`
IsListOnly(g) == g.kind = "list"

\* if gists and type(gists) is list
IsGistList(g) == Truthy(g) /\ g.kind = "list"

\* variant that inserts at the head: matches.insert(0, url)
PrependMatch(m, url) == <<url>> \o m

\* matches.append(url)
AppendMatch(m, url) == Append(m, url)

\* the first file at or after gist g, <<0, 0>> when the loops are over
FirstFrom(items, g) ==
    LET S == {k \in g..Len(items) : Len(items[k].files) > 0}
    IN  IF S = {} THEN <<0, 0>>
        ELSE <<CHOOSE k \in S : \A l \in S : k <= l, 1>>

\* the file the nested for loops visit after file f of gist g
NextPos(items, g, f) ==
    IF f < Len(items[g].files) THEN <<g, f + 1>> ELSE FirstFrom(items, g + 1)

Init ==
    /\ post_data \in PostDatas
    /\ upstream \in Upstreams
    /\ (DictGet(post_data, "username") # Str(KnownUser) => upstream.listing # "ok")
    /\ pc = "start"
    /\ username = None
    /\ pattern = None
    /\ gists = None
    /\ gi = 0
    /\ fi = 0
    /\ matches = <<>>
    /\ response = NoResponse
    /\ exc = ""
    /\ calls = <<>>
    /\ run = 1
    /\ prev = [response |-> NoResponse, exc |-> ""]

\* lines 70-81 and 41-46: read the arguments and send the listing request
SearchBegin ==
    /\ pc = "start"
    /\ username' = DictGet(post_data, "username")
    /\ pattern' = DictGet(post_data, "pattern")
    /\ matches' = <<>>
    /\ calls' = Append(calls, ListRequest(DictGet(post_data, "username")))
    /\ pc' = "listing"
    /\ UNCHANGED <<post_data, upstream, gists, gi, fi, response, exc, run, prev>>

\* gists_for_user raises: nothing in search catches it
ListingRaises ==
    /\ pc = "listing"
    /\ upstream.listing # "never"
    /\ LET r == GistsForUser(ListingAnswer(upstream))
       IN  /\ r.raises # ""
           /\ exc' = r.raises
    /\ pc' = "raised"
    /\ UNCHANGED <<post_data, upstream, username, pattern, gists, gi, fi,
                   matches, response, calls, run, prev>>

\* gists_for_user returns something that is not a non-empty list: lines 102-107
ListingNotFound ==
    /\ pc = "listing"
    /\ upstream.listing # "never"
    /\ LET r == GistsForUser(ListingAnswer(upstream))
       IN  /\ r.raises = ""
           /\ ~IsGistList(r.value)
           /\ gists' = r.value
    /\ response' = FailObject
    /\ pc' = "done"
    /\ UNCHANGED <<post_data, upstream, username, pattern, gi, fi,
                   matches, exc, calls, run, prev>>

\* gists_for_user returns a non-empty list: enter the loops of lines 84-89 and
\* send the first raw-content GET, or return at once when no gist has a file
ListingReturnsGists ==
    /\ pc = "listing"
    /\ upstream.listing # "never"
    /\ LET r == GistsForUser(ListingAnswer(upstream))
       IN  /\ r.raises = ""
           /\ IsGistList(r.value)
           /\ gists' = r.value
           /\ LET pos == FirstFrom(r.value.items, 1)
              IN  /\ gi' = pos[1]
                  /\ fi' = pos[2]
                  /\ IF pos = <<0, 0>>
                     THEN /\ response' = SuccessObject(username, pattern, matches)
                          /\ pc' = "done"
                          /\ calls' = calls
                     ELSE /\ response' = response
                          /\ pc' = "fetching"
                          /\ calls' = Append(calls,
                                 RawRequest(r.value.items[pos[1]].files[pos[2]].raw_url))
    /\ UNCHANGED <<post_data, upstream, username, pattern, matches, exc, run, prev>>

CurrentUrl == gists.items[gi].files[fi].raw_url

\* session.get raises (connection error): nothing in search catches it
FetchRaises ==
    /\ pc = "fetching"
    /\ FetchKind(upstream, CurrentUrl) = "transport"
    /\ exc' = "ConnectionError"
    /\ pc' = "raised"
    /\ UNCHANGED <<post_data, upstream, username, pattern, gists, gi, fi,
                   matches, response, calls, run, prev>>

\* session.get returns, re.search raises (pattern None or not a regular expression)
SearchRaises ==
    /\ pc = "fetching"
    /\ FetchKind(upstream, CurrentUrl) \in {"ok", "http_error"}
    /\ LET m == ReSearchCall(pattern, ResponseText(upstream, CurrentUrl))
       IN  /\ m.raises # ""
           /\ exc' = m.raises
    /\ pc' = "raised"
    /\ UNCHANGED <<post_data, upstream, username, pattern, gists, gi, fi,
                   matches, response, calls, run, prev>>

\* lines 89-94 for one file, then the next GET, or lines 96-101 after the last
FetchReturns ==
    /\ pc = "fetching"
    /\ FetchKind(upstream, CurrentUrl) \in {"ok", "http_error"}
    /\ LET m == ReSearchCall(pattern, ResponseText(upstream, CurrentUrl))
           pos == NextPos(gists.items, gi, fi)
       IN  /\ m.raises = ""
           /\ LET ms == IF m.found
                        THEN AppendMatch(matches, GistUrl(username, gists.items[gi].id))
                        ELSE matches
              IN  /\ matches' = ms
                  /\ gi' = pos[1]
                  /\ fi' = pos[2]
                  /\ IF pos = <<0, 0>>
                     THEN /\ response' = SuccessObject(username, pattern, ms)
                          /\ pc' = "done"
                          /\ calls' = calls
                     ELSE /\ response' = response
                          /\ pc' = "fetching"
                          /\ calls' = Append(calls,
                                 RawRequest(gists.items[pos[1]].files[pos[2]].raw_url))
    /\ UNCHANGED <<post_data, upstream, username, pattern, gists, exc, run, prev>>

\* the same request is posted again; the upstream is unchanged
Repeat ==
    /\ pc \in {"done", "raised"}
    /\ run < MaxRuns
    /\ prev' = [response |-> response, exc |-> exc]
    /\ run' = run + 1
    /\ pc' = "start"
    /\ username' = None
    /\ pattern' = None
    /\ gists' = None
    /\ gi' = 0
    /\ fi' = 0
    /\ matches' = <<>>
    /\ response' = NoResponse
    /\ exc' = ""
    /\ calls' = <<>>
    /\ UNCHANGED <<post_data, upstream>>

Next ==
    \/ SearchBegin
    \/ ListingRaises
    \/ ListingNotFound
    \/ ListingReturnsGists
    \/ FetchRaises
    \/ SearchRaises
    \/ FetchReturns
    \/ Repeat

Spec == Init /\ [][Next]_vars


(***************************************************************************)
(* Vocabulary of the properties.                                           *)
(***************************************************************************)
Terminal == pc \in {"done", "raised"}

Range(q) == {q[k] : k \in 1..Len(q)}

\* the (gist, file) positions of a listing from gist g on, gist by gist and
\* file by file
RECURSIVE FlatFiles(_, _)
FlatFiles(items, g) ==
    IF g > Len(items) THEN <<>>
    ELSE [j \in 1..Len(items[g].files) |-> <<g, j>>] \o FlatFiles(items, g + 1)

\* the pattern is a regular expression and the body served at pos matches it
BodyMatches(pat, pos) ==
    /\ pat # None
    /\ ReValid(pat.val)
    /\ ReSearch(pat.val, upstream.store[pos[1]][pos[2]])

\* the pattern is a regular expression and the text received for pos matches it
TextMatches(pat, pos) ==
    /\ pat # None
    /\ ReValid(pat.val)
    /\ ReSearch(pat.val, ResponseText(upstream, pos))

\* one URL per position of flat whose received text matches, in the order of flat
RECURSIVE UrlsOfMatching(_, _, _)
UrlsOfMatching(user, pat, flat) ==
    IF flat = <<>> THEN <<>>
    ELSE (IF TextMatches(pat, Head(flat)) THEN <<GistUrl(user, Head(flat)[1])>> ELSE <<>>)
         \o UrlsOfMatching(user, pat, Tail(flat))

\* one URL per position of flat whose GET succeeded with a matching body
RECURSIVE UrlsOfFetchedMatching(_, _, _)
UrlsOfFetchedMatching(user, pat, flat) ==
    IF flat = <<>> THEN <<>>
    ELSE (IF FetchKind(upstream, Head(flat)) = "ok" /\ BodyMatches(pat, Head(flat))
          THEN <<GistUrl(user, Head(flat)[1])>> ELSE <<>>)
         \o UrlsOfFetchedMatching(user, pat, Tail(flat))

\* the positions visited before position pos
Before(flat, pos) ==
    SubSeq(flat, 1, (CHOOSE k \in 1..Len(flat) : flat[k] = pos) - 1)

NoDuplicates(q) == \A k, l \in 1..Len(q) : q[k] = q[l] => k = l

\* what the spec's Validate step rejects
InvalidInput ==
    LET u == DictGet(post_data, "username")
        p == DictGet(post_data, "pattern")
    IN  \/ u = None \/ u.val = <<>>
        \/ p = None \/ p.val = <<>> \/ ~ReValid(p.val)

(***************************************************************************)
(* C1: when every fetch succeeds, the matches are exactly the URLs of the  *)
(* gists owning a file that matches, each exactly once.  (Stated for a     *)
(* listing of one page.)  The code appends one URL per matching file.      *)
(***************************************************************************)
C1_ExactlyOnce ==
    (/\ pc = "done"
     /\ ~InvalidInput
     /\ upstream.listing = "ok"
     /\ upstream.failKind = "none"
     /\ upstream.firstPage = Len(upstream.store)
     /\ response.status = "success")
    => /\ NoDuplicates(response.matches)
       /\ Range(response.matches) =
            {GistUrl(username, i) : i \in
                {g \in 1..Len(upstream.store) :
                    \E j \in 1..Len(upstream.store[g]) : BodyMatches(pattern, <<g, j>>)}}

(***************************************************************************)
(* C2: a user with zero gists gets matches = [] and status success.  The   *)
(* code answers the fail object for an empty listing.                      *)
(***************************************************************************)
C2_ZeroGistsSuccess ==
    (Terminal /\ ~InvalidInput /\ upstream.listing = "ok" /\ upstream.store = <<>>)
    => response = SuccessObject(username, pattern, <<>>)

C4_InvalidInputNoNetwork ==
    InvalidInput
    => /\ calls = <<>>
       /\ (Terminal => pc = "done" /\ response.status = "InvalidInput")

(***************************************************************************)
(* C5: when exactly one raw-content fetch fails (non-2xx or transport      *)
(* error), search still returns, and its matches are those of the bodies   *)
(* fetched successfully.  The code lets a transport error escape, and      *)
(* searches the body of a non-2xx answer like any other.                   *)
(***************************************************************************)
C5_OneFailedFetch ==
    (/\ Terminal
     /\ upstream.listing = "ok"
     /\ upstream.failKind \in {"http_error", "transport"}
     /\ Len(FlatFiles(gists.items, 1)) >= 2
     /\ ~InvalidInput)
    => /\ pc = "done"
       /\ response.status # "fail"
       /\ response.matches =
            UrlsOfFetchedMatching(username, pattern, FlatFiles(gists.items, 1))

(***************************************************************************)
(* C6: a listing failure is classified by its cause: not-found gives the   *)
(* not-found result, any other non-2xx answer or a transport failure gives *)
(* a PartialFailure result, never not-found and never an unhandled error.  *)
(***************************************************************************)
C6_ListingFailureClassified ==
    /\ (Terminal /\ ~InvalidInput /\ upstream.listing = "notfound"
        => pc = "done" /\ response = FailObject)
    /\ (Terminal /\ ~InvalidInput
            /\ upstream.listing \in {"ratelimit", "badgateway", "transport"}
        => pc = "done" /\ response.status = "PartialFailure")

(***************************************************************************)
(* C7: posting the same request again against the same upstream gives the  *)
(* same outcome, and the matches are in gist listing order, then file      *)
(* order: at every point of the loops they are the URLs of the matching    *)
(* files among those visited so far, in visiting order.                    *)
(***************************************************************************)
C7_RepeatableAndOrdered ==
    /\ (run > 1 /\ Terminal => response = prev.response /\ exc = prev.exc)
    /\ (pc = "fetching" =>
          matches = UrlsOfMatching(username, pattern,
                        Before(FlatFiles(gists.items, 1), <<gi, fi>>)))
    /\ (pc = "done" /\ response.status = "success" =>
          response.matches = UrlsOfMatching(username, pattern, FlatFiles(gists.items, 1)))

C7_Witness ==
    /\ run = 2
    /\ pc = "done"
    /\ response.status = "success"
    /\ Len(response.matches) = 2
    /\ response.matches[1][3] < response.matches[2][3]
    /\ prev.response = response

(***************************************************************************)
(* C8: a search of valid input never waits forever: in every state in      *)
(* which it has not returned yet it can take a step, also when the         *)
(* upstream never answers the pending request (the deadline expires).      *)
(* The code sets no timeout on either GET.                                 *)
(***************************************************************************)
C8_NeverBlocks == ~InvalidInput => (Terminal \/ ENABLED Next)

(***************************************************************************)
(* C9: the gists of every page of the listing are examined: a gist of any  *)
(* page with a matching file is among the matches.  The code requests      *)
(* page one only.                                                          *)
(***************************************************************************)
C9_AllPagesExamined ==
    (/\ pc = "done"
     /\ ~InvalidInput
     /\ upstream.listing = "ok"
     /\ upstream.failKind = "none"
     /\ response.status = "success")
    => \A g \in 1..Len(upstream.store) :
          (\E j \in 1..Len(upstream.store[g]) : BodyMatches(pattern, <<g, j>>))
          => GistUrl(username, g) \in Range(response.matches)

(***************************************************************************)
(* C10: the requests of a completed search are one listing request, then,  *)
(* iff the listing returned a non-empty list, one raw-content GET per      *)
(* listed file in gist-then-file order; otherwise no raw-content GET and   *)
(* the response is the fail object, which has no matches field.            *)
(***************************************************************************)
C10_RequestsOfCompletedSearch ==
    pc = "done" =>
        IF gists.kind = "list" /\ Len(gists.items) > 0
        THEN /\ calls = <<ListRequest(username)>>
                        \o [k \in 1..Len(FlatFiles(gists.items, 1)) |->
                              RawRequest(gists.items[FlatFiles(gists.items, 1)[k][1]]
                                              .files[FlatFiles(gists.items, 1)[k][2]].raw_url)]
             /\ response.status = "success"
        ELSE /\ calls = <<ListRequest(username)>>
             /\ response = FailObject
             /\ "matches" \notin DOMAIN response

C10_Witness ==
    /\ pc = "done"
    /\ response.status = "success"
    /\ Len(response.matches) = 2
    /\ response.matches[1] = response.matches[2]
    /\ Len(calls) = 3

====
